---- MODULE Spec2Model ----
(***************************************************************************)
(* Model of ospd_netstat/wrapper.py: OSPDnetstat.exec_scan.                *)
(*                                                                         *)
(* Text is modelled as a sequence of atoms.  An atom is a chunk of         *)
(* characters that contains neither whitespace nor a colon ("tcp",         *)
(* "0.0.0.0", "22"), a single whitespace character (" ", "\n"), or a       *)
(* single colon.  str.split() and str.split(":") are computed on these     *)
(* sequences the way Python computes them on characters.                   *)
(*                                                                         *)
(* A Python value that may be None is modelled as a sequence of length     *)
(* 0 (None) or 1 (the value).                                              *)
(***************************************************************************)
EXTENDS Integers, Sequences, FiniteSets, TLC

\* Largest number of output lines of one netstat run (specification Spec).
MaxLines == 3
\* Largest number of output lines of one netstat run when two invocations
\* run concurrently (specification SpecConc).
MaxLinesConc == 1

None == <<>>
Some(x) == <<x>>

----------------------------------------------------------------------------
(* Raw netstat output lines, as readlines() of the remote stdout yields them *)

LineSsh ==
  <<"tcp", " ", " ", "0", " ", "0", " ", "0.0.0.0", ":", "22", " ",
    "0.0.0.0", ":", "*", " ", "LISTEN", "\n">>
LineHttp ==
  <<"tcp", " ", "0", " ", "0", " ", "0.0.0.0", ":", "80", " ",
    "0.0.0.0", ":", "*", " ", "LISTEN", "\n">>
LineTcp6 ==
  <<"tcp6", " ", "0", " ", "0", " ", ":", ":", ":", "80", " ",
    ":", ":", ":", "*", " ", "LISTEN", "\n">>
LineLoopback ==
  <<"tcp", " ", "0", " ", "0", " ", "127.0.0.1", ":", "22", " ",
    "0.0.0.0", ":", "*", " ", "LISTEN", "\n">>
LineShort ==
  <<"tcp", " ", "0", " ", "0", "\n">>
LineBsd ==
  <<"tcp", " ", "0", " ", "0", " ", "*.22", " ", "*.*", " ", "LISTEN", "\n">>
LineHeader ==
  <<"Proto", " ", "Recv-Q", " ", "Send-Q", " ", "Local", " ", "Address", "\n">>

Lines ==
  {LineSsh, LineHttp, LineTcp6, LineLoopback, LineShort, LineBsd, LineHeader}

ConcLines ==
  {LineSsh, LineLoopback, LineShort}

SeqsUpTo(S, n) ==
  UNION {[1..k -> S] : k \in 0..n}

\* What run_command can return: None, or the list of output lines.
CommandResults(S, n) ==
  {None} \cup {Some(r) : r \in SeqsUpTo(S, n)}

\* The scan options of a scan: a dict, here a set of <<key, value>> pairs.
\* The framework stores a boolean parameter as the integer 0 or 1.
OptionDicts ==
  {{}} \cup {{<<"dumptable", v>>} : v \in {0, 1}}

Invocations == {1, 2}

scan_id(i) == IF i = 1 THEN "scan-1" ELSE "scan-2"

target(i) == IF i = 1 THEN "host-a" ELSE "host-b"

----------------------------------------------------------------------------
(* Python built-ins used by exec_scan *)

Whitespace == {" ", "\n"}

RECURSIVE SplitWsAcc(_, _, _)
SplitWsAcc(s, cur, acc) ==
  IF s = <<>>
    THEN (IF cur = <<>> THEN acc ELSE Append(acc, cur))
    ELSE IF Head(s) \in Whitespace
      THEN SplitWsAcc(Tail(s), <<>>, IF cur = <<>> THEN acc ELSE Append(acc, cur))
      ELSE SplitWsAcc(Tail(s), Append(cur, Head(s)), acc)

\* str.split(): split on runs of whitespace, no empty strings in the result.
split(s) ==
  SplitWsAcc(s, <<>>, <<>>)

RECURSIVE SplitSepAcc(_, _, _, _)
SplitSepAcc(s, sep, cur, acc) ==
  IF s = <<>>
    THEN Append(acc, cur)
    ELSE IF Head(s) = sep
      THEN SplitSepAcc(Tail(s), sep, <<>>, Append(acc, cur))
      ELSE SplitSepAcc(Tail(s), sep, Append(cur, Head(s)), acc)

\* str.split(sep): split on every sep, empty strings kept.
split_sep(s, sep) ==
  SplitSepAcc(s, sep, <<>>, <<>>)

RECURSIVE join(_, _)
\* sep.join(strs)
join(sep, strs) ==
  IF strs = <<>> THEN <<>>
  ELSE IF Len(strs) = 1 THEN strs[1]
  ELSE strs[1] \o <<sep>> \o join(sep, Tail(strs))

\* dict.get(key)
get(d, key) ==
  IF \E p \in d : p[1] = key
    THEN Some((CHOOSE p \in d : p[1] = key)[2])
    ELSE None

----------------------------------------------------------------------------
(* State *)

VARIABLES
  options,    \* framework: the options dict of each invocation's scan
  transport,  \* framework: what run_command returns for each invocation
  sink,       \* framework: scan errors, logs and host details, in order added
  calls,      \* framework: the commands run_command was asked to run
  pc,         \* exec_scan: position of each invocation
  dump,       \* exec_scan: local variable dump
  result,     \* exec_scan: local variable result
  tcp_ports,  \* exec_scan: local variable tcp_ports
  idx,        \* exec_scan: position of the running for loop
  status      \* exec_scan: returned value (0 while nothing was returned)

vars ==
  <<options, transport, sink, calls, pc, dump, result, tcp_ports, idx, status>>

----------------------------------------------------------------------------
(* Expressions of exec_scan *)

NetstatCmd == "netstat -tlpn"

ErrorExecValue == <<"A problem occurred trying to execute 'netstat'.">>

ErrorEmptyValue == <<"The result of 'netstat' was empty.">>

add_scan_error(sid, host, value) ==
  [kind |-> "error", scan_id |-> sid, host |-> host, name |-> "",
   value |-> value, port |-> <<>>]

add_scan_log(sid, host, name, value, port) ==
  [kind |-> "log", scan_id |-> sid, host |-> host, name |-> name,
   value |-> value, port |-> port]

add_scan_host_detail(sid, host, name, value) ==
  [kind |-> "host_detail", scan_id |-> sid, host |-> host, name |-> name,
   value |-> value, port |-> <<>>]

\* words = ' '.join(line.split()).split()
Words(line) ==
  split(join(" ", split(line)))

\* ParseLine without the comparison of the address with '0.0.0.0'.
ParseLine_AnyAddress(line) ==
  LET words == Words(line) IN
  IF Len(words) > 2 /\ words[1] = <<"tcp">>
    THEN IF Len(words) < 4
      THEN [raised |-> TRUE, ports |-> <<>>]
      ELSE LET parts == split_sep(words[4], ":") IN
           IF Len(parts) < 2
             THEN [raised |-> TRUE, ports |-> <<>>]
             ELSE [raised |-> FALSE, ports |-> <<parts[2]>>]
    ELSE [raised |-> FALSE, ports |-> <<>>]

\* One iteration of "for line in result": the ports it appends to tcp_ports
\* and whether it raises IndexError (words[3] out of range, or [1] of a
\* split without a colon).
ParseLine(line) ==
  LET words == Words(line) IN
  IF Len(words) > 2 /\ words[1] = <<"tcp">>
    THEN IF Len(words) < 4
      THEN [raised |-> TRUE, ports |-> <<>>]
      ELSE LET parts == split_sep(words[4], ":") IN
           IF Len(parts) < 2
             THEN [raised |-> TRUE, ports |-> <<>>]
             ELSE IF parts[1] = <<"0.0.0.0">>
               THEN [raised |-> FALSE, ports |-> <<parts[2]>>]
               ELSE [raised |-> FALSE, ports |-> <<>>]
    ELSE [raised |-> FALSE, ports |-> <<>>]

\* SummaryValue with a count that is one too large.
SummaryValue_OffByOne(ports) ==
  <<"Via Netstat ", ToString(Len(ports) + 1),
    " open tcp ports were found that are bound to local address 0.0.0.0.">>

\* 'Via Netstat %d open tcp ports were found ...' % len(tcp_ports)
SummaryValue(ports) ==
  <<"Via Netstat ", ToString(Len(ports)),
    " open tcp ports were found that are bound to local address 0.0.0.0.">>

\* '{0}/tcp'.format(port)
PortValue(port) ==
  port \o <<"/tcp">>

RECURSIVE Concat(_)
\* ''.join(result)
Concat(strs) ==
  IF strs = <<>> THEN <<>> ELSE Head(strs) \o Concat(Tail(strs))

\* 'Raw netstat output:\n\n%s' % ''.join(result)
DumpValue(lines) ==
  <<"Raw netstat output:", "\n", "\n">> \o Concat(lines)

\* ", ".join(tcp_ports)
HostDetailValue(ports) ==
  join(", ", ports)

\* dump is 1
DumpIs1(d) ==
  d = Some(1)

\* Position after the loop over tcp_ports: the dump, the host details, return.
AfterDump(ports) ==
  IF Len(ports) > 0 THEN "hd_ports" ELSE "return1"

AfterPortLogs(d, ports) ==
  IF DumpIs1(d) THEN "dump" ELSE AfterDump(ports)

AfterSummary(d, ports) ==
  IF Len(ports) > 0 THEN "portlog" ELSE AfterPortLogs(d, ports)

----------------------------------------------------------------------------
(* Initial states *)

InitLocals ==
  /\ sink = <<>>
  /\ calls = <<>>
  /\ dump = [i \in Invocations |-> None]
  /\ result = [i \in Invocations |-> None]
  /\ tcp_ports = [i \in Invocations |-> <<>>]
  /\ idx = [i \in Invocations |-> 1]
  /\ status = [i \in Invocations |-> 0]

\* The framework runs exec_scan for one (scan_id, target).
Init ==
  /\ options \in [Invocations -> OptionDicts]
  /\ options[2] = {}
  /\ transport \in [Invocations -> CommandResults(Lines, MaxLines)]
  /\ transport[2] = None
  /\ pc = [i \in Invocations |-> IF i = 1 THEN "start" ELSE "idle"]
  /\ InitLocals

\* The framework runs exec_scan for two (scan_id, target) at the same time.
InitConc ==
  /\ options \in [Invocations -> OptionDicts]
  /\ transport \in [Invocations -> CommandResults(ConcLines, MaxLinesConc)]
  /\ pc = [i \in Invocations |-> "start"]
  /\ InitLocals

----------------------------------------------------------------------------
(* Steps of exec_scan(scan_id, target) *)

\* GetScanOptions reading the options of the first scan whatever scan_id is.
GetScanOptions_Shared(i) ==
  /\ pc[i] = "start"
  /\ dump' = [dump EXCEPT ![i] = get(options[1], "dumptable")]
  /\ pc' = [pc EXCEPT ![i] = "run"]
  /\ UNCHANGED <<options, transport, sink, calls, result, tcp_ports, idx, status>>

\* options = self.get_scan_options(scan_id); dump = options.get('dumptable')
GetScanOptions(i) ==
  /\ pc[i] = "start"
  /\ dump' = [dump EXCEPT ![i] = get(options[i], "dumptable")]
  /\ pc' = [pc EXCEPT ![i] = "run"]
  /\ UNCHANGED <<options, transport, sink, calls, result, tcp_ports, idx, status>>

\* RunCommand running the command a second time when the first result is None.
RunCommand_Retry(i) ==
  /\ pc[i] = "run"
  /\ calls' = LET c == [scan_id |-> scan_id(i), host |-> target(i),
                        cmd |-> NetstatCmd]
              IN  IF transport[i] = None THEN calls \o <<c, c>> ELSE Append(calls, c)
  /\ result' = [result EXCEPT ![i] = transport[i]]
  /\ tcp_ports' = [tcp_ports EXCEPT ![i] = <<>>]
  /\ idx' = [idx EXCEPT ![i] = 1]
  /\ pc' = [pc EXCEPT ![i] =
              IF transport[i] = None THEN "err1"
              ELSE IF Len(transport[i][1]) = 0 THEN "summary"
              ELSE "parse"]
  /\ UNCHANGED <<options, transport, sink, dump, status>>

\* result = self.run_command(scan_id=scan_id, host=target, cmd="netstat -tlpn")
\* followed by the test "result is None" and the start of the for loop.
RunCommand(i) ==
  /\ pc[i] = "run"
  /\ calls' = Append(calls, [scan_id |-> scan_id(i), host |-> target(i),
                             cmd |-> NetstatCmd])
  /\ result' = [result EXCEPT ![i] = transport[i]]
  /\ tcp_ports' = [tcp_ports EXCEPT ![i] = <<>>]
  /\ idx' = [idx EXCEPT ![i] = 1]
  /\ pc' = [pc EXCEPT ![i] =
              IF transport[i] = None THEN "err1"
              ELSE IF Len(transport[i][1]) = 0 THEN "summary"
              ELSE "parse"]
  /\ UNCHANGED <<options, transport, sink, dump, status>>

AddScanErrorExec(i) ==
  /\ pc[i] = "err1"
  /\ sink' = Append(sink, add_scan_error(scan_id(i), target(i), ErrorExecValue))
  /\ pc' = [pc EXCEPT ![i] = "err2"]
  /\ UNCHANGED <<options, transport, calls, dump, result, tcp_ports, idx, status>>

\* AddScanErrorEmpty without the call of add_scan_error.
AddScanErrorEmpty_Skipped(i) ==
  /\ pc[i] = "err2"
  /\ pc' = [pc EXCEPT ![i] = "return2"]
  /\ UNCHANGED <<options, transport, sink, calls, dump, result, tcp_ports, idx, status>>

AddScanErrorEmpty(i) ==
  /\ pc[i] = "err2"
  /\ sink' = Append(sink, add_scan_error(scan_id(i), target(i), ErrorEmptyValue))
  /\ pc' = [pc EXCEPT ![i] = "return2"]
  /\ UNCHANGED <<options, transport, calls, dump, result, tcp_ports, idx, status>>

ReturnFailure(i) ==
  /\ pc[i] = "return2"
  /\ status' = [status EXCEPT ![i] = 2]
  /\ pc' = [pc EXCEPT ![i] = "done"]
  /\ UNCHANGED <<options, transport, sink, calls, dump, result, tcp_ports, idx>>

\* One iteration of "for line in result".  An IndexError leaves exec_scan
\* without a returned value.
ParseStep(i) ==
  /\ pc[i] = "parse"
  /\ LET lines == result[i][1]
         out == ParseLine(lines[idx[i]])
     IN  IF out.raised
           THEN /\ pc' = [pc EXCEPT ![i] = "raised"]
                /\ UNCHANGED <<tcp_ports, idx>>
           ELSE /\ tcp_ports' = [tcp_ports EXCEPT ![i] = @ \o out.ports]
                /\ idx' = [idx EXCEPT ![i] = @ + 1]
                /\ pc' = [pc EXCEPT ![i] =
                            IF idx[i] = Len(lines) THEN "summary" ELSE "parse"]
  /\ UNCHANGED <<options, transport, sink, calls, dump, result, status>>

AddSummaryLog(i) ==
  /\ pc[i] = "summary"
  /\ sink' = Append(sink, add_scan_log(scan_id(i), target(i), "Netstat summary",
                                       SummaryValue(tcp_ports[i]), <<>>))
  /\ idx' = [idx EXCEPT ![i] = 1]
  /\ pc' = [pc EXCEPT ![i] = AfterSummary(dump[i], tcp_ports[i])]
  /\ UNCHANGED <<options, transport, calls, dump, result, tcp_ports, status>>

\* One iteration of "for port in tcp_ports".
AddPortLog(i) ==
  /\ pc[i] = "portlog"
  /\ sink' = Append(sink, add_scan_log(scan_id(i), target(i), "Netstat port",
                                       <<>>, PortValue(tcp_ports[i][idx[i]])))
  /\ idx' = [idx EXCEPT ![i] = @ + 1]
  /\ pc' = [pc EXCEPT ![i] =
              IF idx[i] = Len(tcp_ports[i])
                THEN AfterPortLogs(dump[i], tcp_ports[i])
                ELSE "portlog"]
  /\ UNCHANGED <<options, transport, calls, dump, result, tcp_ports, status>>

AddDumpLog(i) ==
  /\ pc[i] = "dump"
  /\ sink' = Append(sink, add_scan_log(scan_id(i), target(i), "Netstat dump",
                                       DumpValue(result[i][1]), <<>>))
  /\ pc' = [pc EXCEPT ![i] = AfterDump(tcp_ports[i])]
  /\ UNCHANGED <<options, transport, calls, dump, result, tcp_ports, idx, status>>

AddHostDetailPorts(i) ==
  /\ pc[i] = "hd_ports"
  /\ sink' = Append(sink, add_scan_host_detail(scan_id(i), target(i), "ports",
                                               HostDetailValue(tcp_ports[i])))
  /\ pc' = [pc EXCEPT ![i] = "hd_tcp_ports"]
  /\ UNCHANGED <<options, transport, calls, dump, result, tcp_ports, idx, status>>

AddHostDetailTcpPorts(i) ==
  /\ pc[i] = "hd_tcp_ports"
  /\ sink' = Append(sink, add_scan_host_detail(scan_id(i), target(i), "tcp_ports",
                                               HostDetailValue(tcp_ports[i])))
  /\ pc' = [pc EXCEPT ![i] = "return1"]
  /\ UNCHANGED <<options, transport, calls, dump, result, tcp_ports, idx, status>>

ReturnSuccess(i) ==
  /\ pc[i] = "return1"
  /\ status' = [status EXCEPT ![i] = 1]
  /\ pc' = [pc EXCEPT ![i] = "done"]
  /\ UNCHANGED <<options, transport, sink, calls, dump, result, tcp_ports, idx>>

Next ==
  \E i \in Invocations :
    \/ GetScanOptions(i)
    \/ RunCommand(i)
    \/ AddScanErrorExec(i)
    \/ AddScanErrorEmpty(i)
    \/ ReturnFailure(i)
    \/ ParseStep(i)
    \/ AddSummaryLog(i)
    \/ AddPortLog(i)
    \/ AddDumpLog(i)
    \/ AddHostDetailPorts(i)
    \/ AddHostDetailTcpPorts(i)
    \/ ReturnSuccess(i)

Spec == Init /\ [][Next]_vars

SpecConc == InitConc /\ [][Next]_vars

----------------------------------------------------------------------------
(* exec_scan as a function of its inputs: the entries one invocation adds   *)
(* and the value it returns (0 when an exception leaves it without one).    *)

RECURSIVE ParseAll(_, _)
ParseAll(lines, ports) ==
  IF lines = <<>>
    THEN [raised |-> FALSE, ports |-> ports]
    ELSE LET out == ParseLine(Head(lines)) IN
         IF out.raised
           THEN [raised |-> TRUE, ports |-> ports]
           ELSE ParseAll(Tail(lines), ports \o out.ports)

exec_scan(sid, host, opts, res) ==
  IF res = None
    THEN [entries |-> <<add_scan_error(sid, host, ErrorExecValue),
                        add_scan_error(sid, host, ErrorEmptyValue)>>,
          status |-> 2]
    ELSE LET parsed == ParseAll(res[1], <<>>)
             ports == parsed.ports
         IN  IF parsed.raised
               THEN [entries |-> <<>>, status |-> 0]
               ELSE [entries |->
                       <<add_scan_log(sid, host, "Netstat summary",
                                      SummaryValue(ports), <<>>)>>
                       \o [k \in 1..Len(ports) |->
                             add_scan_log(sid, host, "Netstat port", <<>>,
                                          PortValue(ports[k]))]
                       \o (IF DumpIs1(get(opts, "dumptable"))
                             THEN <<add_scan_log(sid, host, "Netstat dump",
                                                 DumpValue(res[1]), <<>>)>>
                             ELSE <<>>)
                       \o (IF Len(ports) > 0
                             THEN <<add_scan_host_detail(sid, host, "ports",
                                                         HostDetailValue(ports)),
                                    add_scan_host_detail(sid, host, "tcp_ports",
                                                         HostDetailValue(ports))>>
                             ELSE <<>>),
                     status |-> 1]

----------------------------------------------------------------------------
(* Vocabulary of the properties *)

Invoked(i) == pc[i] # "idle"

Terminated(i) == pc[i] \in {"done", "raised"}

IsError(e) == e.kind = "error"

IsSummaryLog(e) == e.kind = "log" /\ e.name = "Netstat summary"

IsPortLog(e) == e.kind = "log" /\ e.name = "Netstat port"

IsDumpLog(e) == e.kind = "log" /\ e.name = "Netstat dump"

IsHostDetail(e) == e.kind = "host_detail"

\* The entries of the sink that carry invocation i's scan id and target.
Entries(i) ==
  SelectSeq(sink, LAMBDA e : e.scan_id = scan_id(i) /\ e.host = target(i))

ErrorsOf(i) == SelectSeq(Entries(i), IsError)

SummaryLogsOf(i) == SelectSeq(Entries(i), IsSummaryLog)

PortLogsOf(i) == SelectSeq(Entries(i), IsPortLog)

DumpLogsOf(i) == SelectSeq(Entries(i), IsDumpLog)

HostDetailsOf(i) == SelectSeq(Entries(i), IsHostDetail)

CallsOf(i) ==
  SelectSeq(calls, LAMBDA c : c.scan_id = scan_id(i) /\ c.host = target(i))

\* The port of a PortLog, without its "/tcp" suffix.
LoggedPort(e) == SubSeq(e.port, 1, Len(e.port) - 1)

\* The ports the PortLogs of invocation i report, in the order logged.
LoggedPorts(i) ==
  [k \in 1..Len(PortLogsOf(i)) |-> LoggedPort(PortLogsOf(i)[k])]

\* The ports a host-detail value lists.
ListedPorts(value) ==
  IF value = <<>> THEN <<>> ELSE split_sep(value, ", ")

Fields(line) == split(line)

\* The line is a tcp listener bound to 0.0.0.0.
IsTcpAllInterfaces(line) ==
  /\ Len(Fields(line)) >= 4
  /\ Fields(line)[1] = <<"tcp">>
  /\ split_sep(Fields(line)[4], ":")[1] = <<"0.0.0.0">>

\* The port of the local address of a tcp listener line, if it has one.
LinePort(line) ==
  LET parts == split_sep(Fields(line)[4], ":") IN
  IF Len(parts) >= 2 THEN <<parts[2]>> ELSE <<>>

RECURSIVE ExpectedPorts(_)
\* One port per tcp listener line bound to 0.0.0.0, in line order.
ExpectedPorts(lines) ==
  IF lines = <<>> THEN <<>>
  ELSE (IF IsTcpAllInterfaces(Head(lines)) THEN LinePort(Head(lines)) ELSE <<>>)
       \o ExpectedPorts(Tail(lines))

Occurrences(seq, x) ==
  Cardinality({k \in 1..Len(seq) : seq[k] = x})

IsPrefix(s, t) ==
  Len(s) <= Len(t) /\ s = SubSeq(t, 1, Len(s))

Rank(e) ==
  IF IsSummaryLog(e) THEN 0
  ELSE IF IsPortLog(e) THEN 1
  ELSE IF IsDumpLog(e) THEN 2
  ELSE IF IsHostDetail(e) THEN 3
  ELSE 4

----------------------------------------------------------------------------
(* Properties *)

\* C1: when run_command returns None, exec_scan adds nothing but error
\* entries for its scan id and target, and once it has returned it has
\* returned 2 after adding exactly two error entries, the "problem occurred"
\* one and then the "was empty" one.
C1_AbsentFails ==
  \A i \in Invocations :
    (Invoked(i) /\ transport[i] = None) =>
      /\ Entries(i) = ErrorsOf(i)
      /\ Len(Entries(i)) <= 2
      /\ pc[i] # "raised"
      /\ pc[i] = "done" =>
           /\ status[i] = 2
           /\ Len(Entries(i)) = 2
           /\ Entries(i)[1].value = ErrorExecValue
           /\ Entries(i)[2].value = ErrorEmptyValue
           /\ Entries(i)[1].value # Entries(i)[2].value

C1_Witness ==
  \E i \in Invocations :
    /\ transport[i] = None
    /\ pc[i] = "done"
    /\ status[i] = 2
    /\ Len(ErrorsOf(i)) = 2

\* C2: a line that does not have the expected column shape is skipped:
\* exec_scan never ends with an exception, every ended invocation has
\* returned a status code, and a command result that is not None ends in
\* status 1 without an error entry.
C2_MalformedLineSkipped ==
  \A i \in Invocations :
    /\ pc[i] # "raised"
    /\ Terminated(i) => status[i] \in {1, 2}
    /\ (Terminated(i) /\ transport[i] # None) =>
         (status[i] = 1 /\ ErrorsOf(i) = <<>>)

\* C3: once exec_scan has ended on a command result that is not None, it has
\* added exactly one 'Netstat dump' log holding the label followed by all
\* raw lines when dumptable is set to 1, and none when dumptable is 0 or
\* missing from the options.
C3_DumpLog ==
  \A i \in Invocations :
    (Terminated(i) /\ transport[i] # None) =>
      IF get(options[i], "dumptable") = Some(1)
        THEN /\ Len(DumpLogsOf(i)) = 1
             /\ DumpLogsOf(i)[1].value =
                  <<"Raw netstat output:", "\n", "\n">> \o Concat(transport[i][1])
        ELSE DumpLogsOf(i) = <<>>

\* C4: once exec_scan has ended on a command result that is not None and has
\* no tcp listener line bound to 0.0.0.0, it has added exactly one summary
\* log stating count 0, no port log and no host detail, and has returned 1.
C4_ZeroPorts ==
  \A i \in Invocations :
    (/\ Terminated(i)
     /\ transport[i] # None
     /\ \A k \in 1..Len(transport[i][1]) : ~IsTcpAllInterfaces(transport[i][1][k])) =>
      /\ Len(SummaryLogsOf(i)) = 1
      /\ SummaryLogsOf(i)[1].value[2] = "0"
      /\ PortLogsOf(i) = <<>>
      /\ HostDetailsOf(i) = <<>>
      /\ status[i] = 1

\* C5: every port reported, in a port log or in a host detail, is reported
\* at most as many times as the command result has tcp lines bound to
\* 0.0.0.0 with that port; a port that only tcp6 lines or lines bound to
\* another address carry is never reported.
C5_OnlyTcpAllInterfaces ==
  \A i \in Invocations :
    LET lines == IF transport[i] = None THEN <<>> ELSE transport[i][1]
        allowed == ExpectedPorts(lines)
    IN  /\ \A k \in 1..Len(LoggedPorts(i)) :
             Occurrences(LoggedPorts(i), LoggedPorts(i)[k])
               <= Occurrences(allowed, LoggedPorts(i)[k])
        /\ \A h \in 1..Len(HostDetailsOf(i)) :
             LET listed == ListedPorts(HostDetailsOf(i)[h].value) IN
             \A k \in 1..Len(listed) :
               Occurrences(listed, listed[k]) <= Occurrences(allowed, listed[k])

C5_Witness ==
  \E i \in Invocations :
    /\ pc[i] = "done"
    /\ status[i] = 1
    /\ \E k \in 1..Len(transport[i][1]) : transport[i][1][k] = LineLoopback
    /\ \E k \in 1..Len(transport[i][1]) : transport[i][1][k] = LineTcp6
    /\ Len(PortLogsOf(i)) = 1
    /\ Len(HostDetailsOf(i)) = 2

\* C6: once exec_scan has ended on a command result that is not None, the
\* ports of the port logs are, in order and with duplicates, the ports of
\* the tcp lines bound to 0.0.0.0 of the command result.
C6_OrderAndMultiplicity ==
  \A i \in Invocations :
    (Terminated(i) /\ transport[i] # None) =>
      LoggedPorts(i) = ExpectedPorts(transport[i][1])

\* C7: once exec_scan has ended, it has added host details if and only if
\* tcp_ports is not empty, and then exactly two, 'ports' and 'tcp_ports',
\* both holding the found ports joined in order.
C7_HostDetails ==
  \A i \in Invocations :
    Terminated(i) =>
      IF Len(tcp_ports[i]) > 0
        THEN /\ Len(HostDetailsOf(i)) = 2
             /\ HostDetailsOf(i)[1].name = "ports"
             /\ HostDetailsOf(i)[2].name = "tcp_ports"
             /\ HostDetailsOf(i)[1].value = HostDetailsOf(i)[2].value
             /\ ListedPorts(HostDetailsOf(i)[1].value) = tcp_ports[i]
        ELSE HostDetailsOf(i) = <<>>

\* C8: an invocation runs at most one command, always 'netstat -tlpn' on its
\* own target; it has run it before it adds its first entry, and when it
\* has ended it has run it exactly once, whether the result was None or not.
C8_OneCommand ==
  /\ \A k \in 1..Len(calls) :
       /\ calls[k].cmd = "netstat -tlpn"
       /\ \E i \in Invocations :
            Invoked(i) /\ calls[k].scan_id = scan_id(i) /\ calls[k].host = target(i)
  /\ \A i \in Invocations :
       /\ Len(CallsOf(i)) <= 1
       /\ Entries(i) # <<>> => Len(CallsOf(i)) = 1
       /\ Terminated(i) => Len(CallsOf(i)) = 1

C8_Witness ==
  \E i \in Invocations :
    /\ pc[i] = "done"
    /\ transport[i] = None
    /\ Len(CallsOf(i)) = 1
    /\ Len(Entries(i)) = 2

\* C9: when exec_scan has returned 1, its entries are one summary log first,
\* then the port logs, each '<port>/tcp', then the dump log if any, then the
\* host details if any; the count of the summary is the number of port logs
\* and the number of ports each host detail lists; there is no error entry.
C9_SuccessOrder ==
  \A i \in Invocations :
    status[i] = 1 =>
      LET es == Entries(i)
          n == Len(PortLogsOf(i))
      IN  /\ Len(es) >= 1
          /\ IsSummaryLog(es[1])
          /\ Len(SummaryLogsOf(i)) = 1
          /\ \A j, k \in 1..Len(es) : j < k => Rank(es[j]) <= Rank(es[k])
          /\ \A k \in 1..Len(es) : Rank(es[k]) <= 3
          /\ \A k \in 1..n :
               /\ Len(PortLogsOf(i)[k].port) >= 2
               /\ PortLogsOf(i)[k].port[Len(PortLogsOf(i)[k].port)] = "/tcp"
          /\ es[1].value[2] = ToString(n)
          /\ Len(DumpLogsOf(i)) <= 1
          /\ \A h \in 1..Len(HostDetailsOf(i)) :
               Len(ListedPorts(HostDetailsOf(i)[h].value)) = n
          /\ HostDetailsOf(i) = <<>> => n = 0

C9_Witness ==
  \E i \in Invocations :
    /\ status[i] = 1
    /\ Len(PortLogsOf(i)) = 2
    /\ Len(DumpLogsOf(i)) = 1
    /\ Len(HostDetailsOf(i)) = 2
    /\ Len(Entries(i)) = 6

\* A step that is not a step of invocation i leaves i's entries, i's calls
\* and i's local variables as they are.
OthersUntouched ==
  \A i \in Invocations :
    (pc'[i] = pc[i] /\ idx'[i] = idx[i]) =>
      /\ Entries(i)' = Entries(i)
      /\ CallsOf(i)' = CallsOf(i)
      /\ dump'[i] = dump[i]
      /\ result'[i] = result[i]
      /\ tcp_ports'[i] = tcp_ports[i]
      /\ status'[i] = status[i]

\* What invocation i has added so far is the beginning of what exec_scan
\* adds when it runs alone on i's options and command result, and once i
\* has ended it is all of it and the returned value is the same.
AsWhenAlone ==
  \A i \in Invocations :
    LET alone == exec_scan(scan_id(i), target(i), options[i], transport[i]) IN
    /\ IsPrefix(Entries(i), alone.entries)
    /\ Terminated(i) => (Entries(i) = alone.entries /\ status[i] = alone.status)
    /\ ~Terminated(i) => status[i] = 0

\* C10: under every interleaving of two invocations for different
\* (scan_id, target), every entry of the sink carries the scan id and target
\* of one of them, a step of one invocation changes nothing of the other,
\* and each invocation adds the entries and returns the status it adds and
\* returns when it runs alone.
C10_Independent ==
  /\ [](/\ AsWhenAlone
        /\ Len(sink) = Len(Entries(1)) + Len(Entries(2)))
  /\ [][OthersUntouched]_vars

C10_Witness ==
  /\ pc[1] = "done"
  /\ pc[2] = "done"
  /\ status[1] = 1
  /\ status[2] = 1
  /\ Len(sink) >= 6
  /\ \E k \in 1..(Len(sink) - 2) :
       /\ sink[k].scan_id = scan_id(1)
       /\ sink[k + 1].scan_id = scan_id(2)
       /\ sink[k + 2].scan_id = scan_id(1)
  /\ options[1] # options[2]
  /\ transport[1] # transport[2]

====
